---- MODULE Spec2Model ----
(***************************************************************************)
(* A model of typedoc's reflection graph code:                             *)
(*   - AccessorConverter.convert          (converter/nodes/accessor)       *)
(*   - DeclarationReflection              (models/reflections/declaration) *)
(*   - JavascriptIndexPlugin              (output/plugins)                 *)
(* Each part has its own specification over the shared variables; the      *)
(* variables a part does not use keep their initial value.                 *)
(***************************************************************************)
EXTENDS Integers, Sequences, FiniteSets, TLC

VARIABLES
    \* ---- converter state (AccessorConverter) ----
    reflections,    \* project.reflections: sequence of reflections, index = id
    symbolMap,      \* symbol identity -> reflection id (0: not registered)
    scope,          \* context.scope: id of the innermost reflection
    converted,      \* per scope and symbol: the accessor nodes converted so far
    lastCall,       \* what the last converter call was and how it ended
    \* ---- one DeclarationReflection (getAllSignatures, traverse) ----
    decl,           \* the declaration's fields, as they are now
    declOrig,       \* the declaration's fields when the first call started
    calls,          \* number of getAllSignatures calls made
    lastResult,     \* the array the last getAllSignatures call returned
    pc,             \* traverse: the part of the declaration it is at
    snapshot,       \* traverse: the array forEach was started on
    idx,            \* traverse: forEach's index into that array
    visited,        \* traverse: the callback's invocations, in order
    serialized,     \* toObject: the object the call returned
    \* ---- renderer (JavascriptIndexPlugin) ----
    project,        \* event.project.reflections: id -> reflection
    rows,           \* the rows of the search index
    fileWritten,    \* search.js has been written
    \* ---- findReflectionByName ----
    graph,          \* the reflection graph the lookup runs on
    query,          \* the call: the declaration, names and searchUp
    stack,          \* the findReflectionByName activations, outermost first
    ret,            \* the value the innermost finished call returned
    status          \* running, returned, TypeError or RangeError

accVars == <<reflections, symbolMap, scope, converted, lastCall>>

declVars == <<decl, declOrig, calls, lastResult, pc, snapshot, idx, visited, serialized>>

renderVars == <<project, rows, fileWritten>>

findVars == <<graph, query, stack, ret, status>>

vars == <<accVars, declVars, renderVars, findVars>>

\* ------------------------------------------------------------------------
\* Bounds
\* ------------------------------------------------------------------------
\* Largest id the registry hands out in a run of the model.
MaxReflections == 6
\* Longest typeParameters / signatures list of a declaration.
MaxList == 2
\* Number of getAllSignatures calls on one declaration.
MaxCalls == 3
\* Nested findReflectionByName activations the call stack has room for.
MaxDepth == 8

\* ------------------------------------------------------------------------
\* Values
\* ------------------------------------------------------------------------
NoType == "NoType"
NoSignature == [name |-> "none", kind |-> "none"]
NoSymbol == "NoSymbol"
Symbols == {"s"}

\* ReflectionKind.ClassOrInterface: the kinds the scope test accepts.
ClassOrInterface == {"Class", "Interface"}

\* The containers the driver has created before any accessor is converted.
Containers == {1, 2, 3}

ContainerKind(c) == CASE c = 1 -> "Class" [] c = 2 -> "Interface" [] OTHER -> "ObjectLiteral"

NewReflection(name, kind, parent) ==
    [name |-> name, kind |-> kind, parent |-> parent, type |-> NoType,
     getSignature |-> NoSignature, setSignature |-> NoSignature]

\* The accessor nodes of the source program: syntax kind, symbol, and whether
\* the node's comment carries a @constant tag.
AccessorNodes ==
    [kind : {"GetAccessor", "SetAccessor"},
     symbol : Symbols \cup {NoSymbol},
     constantTag : BOOLEAN]

\* createComment(node), comment.hasTag('constant'): the node's comment carries
\* the tag.
hasConstantTag(node) == node.constantTag

\* The kind the converter asks for: Accessor, or Constant for a @constant
\* accessor inside a class or an interface.
accessorKind(scopeKind, node) ==
    IF scopeKind \in ClassOrInterface /\ hasConstantTag(node)
    THEN "Constant"
    ELSE "Accessor"

\* createDeclaration: create-or-fetch the Declaration of the node's symbol in
\* the scope.  A node without a resolvable symbol produces no reflection (0).
\* A new Declaration gets the next id, is registered under the symbol and is
\* appended to the scope's children (parent = scope).
createDeclaration(refl, syms, scp, node, kind) ==
    IF node.symbol = NoSymbol
    THEN [reflections |-> refl, symbolMap |-> syms, declaration |-> 0]
    ELSE IF syms[<<scp, node.symbol>>] # 0
    THEN [reflections |-> refl, symbolMap |-> syms,
          declaration |-> syms[<<scp, node.symbol>>]]
    ELSE [reflections |-> Append(refl, NewReflection(node.symbol, kind, scp)),
          symbolMap |-> [syms EXCEPT ![<<scp, node.symbol>>] = Len(refl) + 1],
          declaration |-> Len(refl) + 1]

\* createSignature(context, node, name, kind): the signature reflection.
createSignature(name, kind) == [name |-> name, kind |-> kind]

\* owner.convertType(context, node.type, ...): the Type of the node.
convertType(node) == "Type"

\* The callback the converter hands to withScope, when nothing in it throws.
convertBodyWrongSlot(d, node, kind) ==
    IF kind = "Constant"
    THEN [d EXCEPT !.type = convertType(node)]
    ELSE [d EXCEPT !.getSignature = createSignature("__get", "GetSignature")]

convertBody(d, node, kind) ==
    IF kind = "Constant"
    THEN [d EXCEPT !.type = convertType(node)]
    ELSE IF node.kind = "GetAccessor"
    THEN [d EXCEPT !.getSignature = createSignature("__get", "GetSignature")]
    ELSE [d EXCEPT !.setSignature = createSignature("__set", "SetSignature")]

\* withScope(reflection, body): context.scope once the call is over, whether
\* body returned or failed: the scope that was current before the call.
withScope(ctxScope, reflection, bodyThrows) == ctxScope

\* context.withScope(declaration, () => {...}) as the converter calls it.
scopeAfterManualPush(ctxScope, declaration, bodyThrows) ==
    IF bodyThrows /\ declaration # 0 THEN declaration ELSE ctxScope

scopeAfterBody(ctxScope, declaration, bodyThrows) ==
    withScope(ctxScope, declaration, bodyThrows)

\* AccessorConverter.convert(context, node).  throws: createSignature or
\* convertType throws inside the scoped body.  With no declaration the body
\* has nothing to assign to, and no reflection changes.
convert(refl, syms, scp, node, throws) ==
    LET kind == accessorKind(refl[scp].kind, node)
        made == createDeclaration(refl, syms, scp, node, kind)
        declaration == made.declaration
        ran  == declaration # 0 /\ ~throws
    IN  [reflections |->
            IF ran
            THEN [made.reflections EXCEPT
                    ![declaration] = convertBody(made.reflections[declaration], node, kind)]
            ELSE made.reflections,
         symbolMap |-> made.symbolMap,
         scope |-> scopeAfterBody(scp, declaration, throws),
         declaration |-> declaration,
         outcome |-> IF throws THEN "failed" ELSE "returned"]

\* The variables of the converter while another part of the program runs.
AccIdle ==
    /\ reflections = <<>>
    /\ symbolMap = <<>>
    /\ scope = 0
    /\ converted = <<>>
    /\ lastCall = [op |-> "none", scopeBefore |-> 0, outcome |-> "none", declaration |-> 0]

\* The variables of the declaration under test while another part runs.
DeclIdle ==
    /\ decl = <<>>
    /\ declOrig = <<>>
    /\ calls = 0
    /\ lastResult = <<>>
    /\ pc = "idle"
    /\ snapshot = <<>>
    /\ idx = 0
    /\ visited = <<>>
    /\ serialized = <<>>

\* The variables of the renderer while another part runs.
RenderIdle ==
    /\ project = <<>>
    /\ rows = <<>>
    /\ fileWritten = FALSE

\* The variables of the lookup while another part runs.
FindIdle ==
    /\ graph = <<>>
    /\ query = <<>>
    /\ stack = <<>>
    /\ ret = 0
    /\ status = "idle"

AccInit ==
    /\ DeclIdle
    /\ RenderIdle
    /\ FindIdle
    /\ reflections = [c \in Containers |-> NewReflection("container", ContainerKind(c), 0)]
    /\ symbolMap = [k \in Containers \X Symbols |-> 0]
    /\ scope \in Containers
    /\ converted = [k \in Containers \X Symbols |-> {}]
    /\ lastCall = [op |-> "none", scopeBefore |-> 0, outcome |-> "none", declaration |-> 0]

\* The driver hands one accessor node of the current scope to the converter.
ConvertAccessor(node, throws) ==
    /\ LET r == convert(reflections, symbolMap, scope, node, throws)
       IN  /\ Len(r.reflections) <= MaxReflections
           /\ reflections' = r.reflections
           /\ symbolMap' = r.symbolMap
           /\ scope' = r.scope
           /\ converted' =
                IF r.outcome = "returned" /\ node.symbol # NoSymbol
                THEN [converted EXCEPT ![<<scope, node.symbol>>] =
                        @ \cup {<<node.kind, node.constantTag>>}]
                ELSE converted
           /\ lastCall' = [op |-> "accessor", scopeBefore |-> scope,
                           outcome |-> r.outcome, declaration |-> r.declaration]
    /\ UNCHANGED <<declVars, renderVars, findVars>>

\* Variable/property converter: a single Declaration of kind Property whose
\* type comes from the Type Converter.
ConvertProperty(sym, throws) ==
    /\ LET node == [kind |-> "PropertyDeclaration", symbol |-> sym, constantTag |-> FALSE]
           made == createDeclaration(reflections, symbolMap, scope, node, "Property")
           declaration == made.declaration
       IN  /\ Len(made.reflections) <= MaxReflections
           /\ reflections' =
                IF throws THEN made.reflections
                ELSE [made.reflections EXCEPT ![declaration].type = convertType(node)]
           /\ symbolMap' = made.symbolMap
           /\ scope' = withScope(scope, declaration, throws)
           /\ lastCall' = [op |-> "property", scopeBefore |-> scope,
                           outcome |-> IF throws THEN "failed" ELSE "returned",
                           declaration |-> declaration]
    /\ UNCHANGED <<converted, declVars, renderVars, findVars>>

AccNext ==
    \/ \E node \in AccessorNodes, throws \in BOOLEAN : ConvertAccessor(node, throws)
    \/ \E sym \in Symbols, throws \in BOOLEAN : ConvertProperty(sym, throws)

SpecAccessor == AccInit /\ [][AccNext]_vars

\* ------------------------------------------------------------------------
\* DeclarationReflection: fields
\* ------------------------------------------------------------------------
\* An optional array field: unset, or an array (which may be empty).
Unset == [present |-> FALSE, items |-> <<>>]
Array(items) == [present |-> TRUE, items |-> items]

Refl(kind, id) == [kind |-> kind, id |-> id]
NoReflection == Refl("none", 0)

\* The first n reflections of a kind, in creation (declaration) order.
FirstN(kind, n) == [i \in 1..n |-> Refl(kind, i)]

OptionalLists(kind) == {Unset} \cup {Array(FirstN(kind, n)) : n \in 0..MaxList}

\* The type field: unset, an intrinsic type, or a ReflectionType holding an
\* inline declaration.
DeclTypes ==
    {[kind |-> "none", declaration |-> NoReflection],
     [kind |-> "intrinsic", declaration |-> NoReflection],
     [kind |-> "reflection", declaration |-> Refl("TypeLiteral", 1)]}

\* The declarations the methods are run on.
TestDeclarations ==
    [typeParameters : OptionalLists("TypeParameter"),
     type : DeclTypes,
     signatures : OptionalLists("CallSignature"),
     indexSignature : {NoReflection, Refl("IndexSignature", 1)},
     getSignature : {NoReflection, Refl("GetSignature", 1)},
     setSignature : {NoReflection, Refl("SetSignature", 1)},
     children : {Unset, Array(FirstN("Property", 2))}]

\* ------------------------------------------------------------------------
\* DeclarationReflection.hasGetterOrSetter, getAllSignatures
\* ------------------------------------------------------------------------
hasGetterOrSetter(d) ==
    d.getSignature # NoReflection \/ d.setSignature # NoReflection

\* result.push(x) when the field is set.
pushIfSet(result, x) == IF x # NoReflection THEN Append(result, x) ELSE result

\* getAllSignatures(): the returned array, and this.signatures as the call
\* leaves it.  result starts as a fresh array and concat copies.
getAllSignaturesAliased(d) ==
    LET r == pushIfSet(pushIfSet(pushIfSet(d.signatures.items, d.indexSignature),
                                 d.getSignature), d.setSignature)
    IN  [result |-> r,
         signatures |-> IF d.signatures.present THEN Array(r) ELSE d.signatures]

getAllSignatures(d) ==
    LET r0 == IF d.signatures.present THEN <<>> \o d.signatures.items ELSE <<>>
        r1 == pushIfSet(r0, d.indexSignature)
        r2 == pushIfSet(r1, d.getSignature)
        r3 == pushIfSet(r2, d.setSignature)
    IN  [result |-> r3, signatures |-> d.signatures]

SigInit ==
    /\ AccIdle
    /\ RenderIdle
    /\ FindIdle
    /\ decl \in TestDeclarations
    /\ declOrig = decl
    /\ calls = 0
    /\ lastResult = <<>>
    /\ pc = "idle"
    /\ snapshot = <<>>
    /\ idx = 0
    /\ visited = <<>>
    /\ serialized = <<>>

CallGetAllSignatures ==
    /\ calls < MaxCalls
    /\ LET r == getAllSignatures(decl)
       IN  /\ lastResult' = r.result
           /\ decl' = [decl EXCEPT !.signatures = r.signatures]
    /\ calls' = calls + 1
    /\ UNCHANGED <<accVars, renderVars, findVars, serialized, declOrig, pc, snapshot, idx, visited>>

SigNext == CallGetAllSignatures

SpecSignatures == SigInit /\ [][SigNext]_vars

\* The sequence C10 describes, read off the declaration as it was constructed.
Optional(x) == IF x = NoReflection THEN <<>> ELSE <<x>>

DescribedSignatures(d) ==
    d.signatures.items \o Optional(d.indexSignature)
        \o Optional(d.getSignature) \o Optional(d.setSignature)

\* C10: every getAllSignatures call returns signatures (in order), then
\* indexSignature, getSignature, setSignature (each if set); the declaration's
\* own fields are as before the calls; and hasGetterOrSetter() is true exactly
\* when the result holds a get or set signature.
C10_GetAllSignatures ==
    calls > 0 =>
        /\ lastResult = DescribedSignatures(declOrig)
        /\ decl = declOrig
        /\ hasGetterOrSetter(decl) <=>
             \E i \in DOMAIN lastResult :
                 lastResult[i].kind \in {"GetSignature", "SetSignature"}

C10_Witness ==
    /\ calls = MaxCalls
    /\ Len(decl.signatures.items) = MaxList
    /\ Len(lastResult) = MaxList + 3
    /\ hasGetterOrSetter(decl)

\* ------------------------------------------------------------------------
\* DeclarationReflection.traverse
\* ------------------------------------------------------------------------
\* list.slice().forEach(...): the array forEach walks.  slice() copies, so
\* the walk is over the array as it was when the loop started, not over the
\* declaration's own array.
iteratedLive(copy, own) == own

iterated(copy, own) == copy

\* What a callback may do to the list it is called from: take the reflection
\* it was called with out of it.
Without(list, e) ==
    LET Keep(x) == x # e
    IN  Array(SelectSeq(list.items, Keep))

TravInit ==
    /\ AccIdle
    /\ RenderIdle
    /\ FindIdle
    /\ decl \in TestDeclarations
    /\ declOrig = decl
    /\ calls = 0
    /\ lastResult = <<>>
    /\ pc = "typeParameters"
    /\ snapshot = decl.typeParameters.items
    /\ idx = 1
    /\ visited = <<>>
    /\ serialized = <<>>

\* callback(parameter, TraverseProperty.TypeParameter), for the next element.
VisitTypeParameter(remove) ==
    /\ pc = "typeParameters"
    /\ decl.typeParameters.present
    /\ idx <= Len(iterated(snapshot, decl.typeParameters.items))
    /\ LET e == iterated(snapshot, decl.typeParameters.items)[idx]
       IN  /\ visited' = Append(visited, <<e, "TypeParameter">>)
           /\ decl' = IF remove
                      THEN [decl EXCEPT !.typeParameters = Without(decl.typeParameters, e)]
                      ELSE decl
    /\ idx' = idx + 1
    /\ UNCHANGED <<accVars, renderVars, findVars, serialized, declOrig, calls, lastResult, pc, snapshot>>

\* The typeParameters loop is over (or the field is unset); then the inline
\* declaration of a ReflectionType is visited.
VisitTypeLiteral ==
    /\ pc = "typeParameters"
    /\ \/ ~decl.typeParameters.present
       \/ idx > Len(iterated(snapshot, decl.typeParameters.items))
    /\ visited' = IF decl.type.kind = "reflection"
                  THEN Append(visited, <<decl.type.declaration, "TypeLiteral">>)
                  ELSE visited
    /\ pc' = "signatures"
    /\ snapshot' = decl.signatures.items
    /\ idx' = 1
    /\ UNCHANGED <<accVars, renderVars, findVars, serialized, decl, declOrig, calls, lastResult>>

\* callback(signature, TraverseProperty.Signatures), for the next element.
VisitSignature(remove) ==
    /\ pc = "signatures"
    /\ decl.signatures.present
    /\ idx <= Len(iterated(snapshot, decl.signatures.items))
    /\ LET e == iterated(snapshot, decl.signatures.items)[idx]
       IN  /\ visited' = Append(visited, <<e, "Signatures">>)
           /\ decl' = IF remove
                      THEN [decl EXCEPT !.signatures = Without(decl.signatures, e)]
                      ELSE decl
    /\ idx' = idx + 1
    /\ UNCHANGED <<accVars, renderVars, findVars, serialized, declOrig, calls, lastResult, pc, snapshot>>

visitIfSet(log, x, property) ==
    IF x # NoReflection THEN Append(log, <<x, property>>) ELSE log

\* The signatures loop is over; the index, get and set signatures are visited.
VisitSingleSignatures ==
    /\ pc = "signatures"
    /\ \/ ~decl.signatures.present
       \/ idx > Len(iterated(snapshot, decl.signatures.items))
    /\ visited' =
         visitIfSet(visitIfSet(visitIfSet(visited,
             decl.indexSignature, "IndexSignature"),
             decl.getSignature, "GetSignature"),
             decl.setSignature, "SetSignature")
    /\ pc' = "children"
    /\ snapshot' = decl.children.items
    /\ idx' = 1
    /\ UNCHANGED <<accVars, renderVars, findVars, serialized, decl, declOrig, calls, lastResult>>

\* super.traverse(callback): ContainerReflection visits every child, in
\* insertion order.
VisitChild ==
    /\ pc = "children"
    /\ decl.children.present
    /\ idx <= Len(snapshot)
    /\ visited' = Append(visited, <<snapshot[idx], "Children">>)
    /\ idx' = idx + 1
    /\ UNCHANGED <<accVars, renderVars, findVars, serialized, decl, declOrig, calls, lastResult, pc, snapshot>>

TraverseReturn ==
    /\ pc = "children"
    /\ \/ ~decl.children.present
       \/ idx > Len(snapshot)
    /\ pc' = "done"
    /\ UNCHANGED <<accVars, renderVars, findVars, serialized, decl, declOrig, calls, lastResult, snapshot, idx, visited>>

TravNext ==
    \/ \E remove \in BOOLEAN : VisitTypeParameter(remove)
    \/ VisitTypeLiteral
    \/ \E remove \in BOOLEAN : VisitSignature(remove)
    \/ VisitSingleSignatures
    \/ VisitChild
    \/ TraverseReturn

SpecTraverse == TravInit /\ [][TravNext]_vars

\* The invocations C8 describes, read off the declaration as it was when
\* traverse was called.
Tagged(items, property) == [i \in DOMAIN items |-> <<items[i], property>>]

OptionalVisit(x, property) == IF x = NoReflection THEN <<>> ELSE <<<<x, property>>>>

DescribedVisits(d) ==
    Tagged(d.typeParameters.items, "TypeParameter")
        \o (IF d.type.kind = "reflection"
            THEN <<<<d.type.declaration, "TypeLiteral">>>> ELSE <<>>)
        \o Tagged(d.signatures.items, "Signatures")
        \o OptionalVisit(d.indexSignature, "IndexSignature")
        \o OptionalVisit(d.getSignature, "GetSignature")
        \o OptionalVisit(d.setSignature, "SetSignature")
        \o Tagged(d.children.items, "Children")

\* C8: the callback is invoked exactly once for every type parameter, the
\* inline type literal, every signature, the index, get and set signature and
\* every child, in that order, whatever the callback removes from
\* typeParameters or signatures on the way.
C8_TraverseOrder ==
    /\ Len(visited) <= Len(DescribedVisits(declOrig))
    /\ visited = SubSeq(DescribedVisits(declOrig), 1, Len(visited))
    /\ pc = "done" => visited = DescribedVisits(declOrig)

C8_Witness ==
    /\ pc = "done"
    /\ Len(declOrig.typeParameters.items) = MaxList
    /\ Len(declOrig.signatures.items) = MaxList
    /\ decl.typeParameters.items = <<>>
    /\ decl.signatures.items = <<>>
    /\ Len(visited) = 2 * MaxList + 6

\* ------------------------------------------------------------------------
\* DeclarationReflection.toObject
\* ------------------------------------------------------------------------
\* defaultValue?: string -- undefined, or a string (which may be empty).
Undefined == [defined |-> FALSE, text |-> ""]
Str(text) == [defined |-> TRUE, text |-> text]

TypeFields == {"type", "overwrites", "inheritedFrom", "implementationOf"}
TypeListFields == {"extendedTypes", "extendedBy", "implementedTypes", "implementedBy"}
SerializedFields == TypeFields \cup TypeListFields \cup {"defaultValue"}

\* The declarations toObject is run on.
SerializedDeclarations ==
    [type : {NoType, "T"},
     defaultValue : {Undefined, Str(""), Str("1")},
     overwrites : {NoType, "T"},
     inheritedFrom : {NoType, "T"},
     implementationOf : {NoType, "T"},
     extendedTypes : {Unset, Array(<<>>), Array(<<"T">>)},
     extendedBy : {Unset, Array(<<>>), Array(<<"T">>)},
     implementedTypes : {Unset, Array(<<>>), Array(<<"T">>)},
     implementedBy : {Unset, Array(<<>>), Array(<<"T">>)}]

\* Type.toObject(): the raw object of a type.
typeToObject(t) == [type |-> "reference", name |-> t]

\* super.toObject(): the raw object of the reflection's own part.
superToObject == [id |-> 1, name |-> "n", kind |-> 1024, flags |-> <<>>]

\* if (this.defaultValue): a string is truthy when it is not empty.
truthyAlways(v) == TRUE

truthy(v) == v.defined /\ v.text # ""

\* if (cond) { result[key] = value; }
putIf(result, cond, key, value) ==
    IF cond THEN (key :> value) @@ result ELSE result

typeKey(result, d, key) ==
    putIf(result, d[key] # NoType, key, typeToObject(d[key]))

typeListKey(result, d, key) ==
    putIf(result, d[key].present, key,
          [i \in DOMAIN d[key].items |-> typeToObject(d[key].items[i])])

toObject(d) ==
    LET r0 == superToObject
        r1 == typeKey(r0, d, "type")
        r2 == putIf(r1, truthy(d.defaultValue), "defaultValue", d.defaultValue)
        r3 == typeKey(r2, d, "overwrites")
        r4 == typeKey(r3, d, "inheritedFrom")
        r5 == typeListKey(r4, d, "extendedTypes")
        r6 == typeListKey(r5, d, "extendedBy")
        r7 == typeListKey(r6, d, "implementedTypes")
        r8 == typeListKey(r7, d, "implementedBy")
    IN  typeKey(r8, d, "implementationOf")

ToObjectInit ==
    /\ AccIdle
    /\ RenderIdle
    /\ FindIdle
    /\ decl \in SerializedDeclarations
    /\ declOrig = decl
    /\ calls = 0
    /\ lastResult = <<>>
    /\ pc = "idle"
    /\ snapshot = <<>>
    /\ idx = 0
    /\ visited = <<>>
    /\ serialized = <<>>

CallToObject ==
    /\ calls = 0
    /\ serialized' = toObject(decl)
    /\ calls' = 1
    /\ UNCHANGED <<accVars, renderVars, findVars, decl, declOrig, lastResult,
                   pc, snapshot, idx, visited>>

ToObjectNext == CallToObject

SpecToObject == ToObjectInit /\ [][ToObjectNext]_vars

\* The field is set: it is not undefined.
IsSet(d, key) ==
    IF key \in TypeFields THEN d[key] # NoType
    ELSE IF key \in TypeListFields THEN d[key].present
    ELSE d[key].defined

\* The key's value is not what an unset field would have given.
HasValue(obj, key) ==
    IF key \in TypeFields THEN obj[key] # typeToObject(NoType)
    ELSE IF key \in TypeListFields THEN obj[key] \in Seq({typeToObject("T")})
    ELSE obj[key] # Undefined

\* C5 as stated: each of the nine keys is in the returned object exactly when
\* the declaration's field is set, and never with an undefined value.
C5_KeysWhenSetAsStated ==
    calls = 1 =>
        \A key \in SerializedFields :
            /\ key \in DOMAIN serialized <=> IsSet(decl, key)
            /\ key \in DOMAIN serialized => HasValue(serialized, key)

\* C5 amended: each key other than defaultValue is in the returned object
\* exactly when the field is set; defaultValue is in it exactly when the field
\* is a non-empty string; and no key is there with an undefined value.
C5_KeysWhenSet ==
    calls = 1 =>
        /\ \A key \in SerializedFields \ {"defaultValue"} :
              key \in DOMAIN serialized <=> IsSet(decl, key)
        /\ "defaultValue" \in DOMAIN serialized <=>
              (IsSet(decl, "defaultValue") /\ decl.defaultValue.text # "")
        /\ \A key \in SerializedFields :
              key \in DOMAIN serialized => HasValue(serialized, key)

C5_Witness ==
    /\ calls = 1
    /\ decl.defaultValue = Str("")
    /\ "defaultValue" \notin DOMAIN serialized
    /\ decl.extendedTypes = Array(<<>>)
    /\ "extendedTypes" \in DOMAIN serialized
    /\ decl.type = NoType
    /\ "type" \notin DOMAIN serialized

\* ------------------------------------------------------------------------
\* JavascriptIndexPlugin.onRendererBegin
\* ------------------------------------------------------------------------
\* The keys of project.reflections, and the values a parent link takes.
ReflectionIds == {1, 2, 3}
ProjectParent == 0      \* the parent is the ProjectReflection
NoParent == -1          \* undefined
NoUrl == "NoUrl"

\* The finished graph handed to the renderer: every reflection's parent is
\* the project or a reflection created before it.
RenderedReflections ==
    {g \in [ReflectionIds ->
              [isDeclaration : BOOLEAN, url : {NoUrl, "page.html"},
               name : {"", "a"}, isExternal : BOOLEAN, kind : {"Property"},
               cssClasses : {"tsd-kind-property"},
               parent : {ProjectParent} \cup ReflectionIds]] :
        \A i \in ReflectionIds : g[i].parent < i}

\* Reflection.getFullName(): the names from the outermost reflection below
\* the project down to this one (joined with '.').
RECURSIVE getFullName(_, _)
getFullName(refl, i) ==
    IF refl[i].parent \in ReflectionIds
    THEN Append(getFullName(refl, refl[i].parent), refl[i].name)
    ELSE <<refl[i].name>>

\* let parent = reflection.parent; if (parent instanceof ProjectReflection)
\* parent = undefined;  -- the local, and the reflections as the statement
\* leaves them.
parentOfRowDetached(refl, key) ==
    LET parent == IF refl[key].parent = ProjectParent THEN NoParent ELSE refl[key].parent
    IN  [parent |-> parent, reflections |-> [refl EXCEPT ![key].parent = parent]]

parentOfRow(refl, key) ==
    [parent |-> IF refl[key].parent = ProjectParent THEN NoParent ELSE refl[key].parent,
     reflections |-> refl]

\* One pass of the for-in loop's body.
indexReflection(state, key) ==
    LET reflection == state.reflections[key]
    IN  IF ~reflection.isDeclaration
        THEN state
        ELSE IF reflection.url = NoUrl \/ reflection.name = "" \/ reflection.isExternal
        THEN state
        ELSE LET p == parentOfRow(state.reflections, key)
                 base == [id |-> Len(state.rows), kind |-> reflection.kind,
                          fullName |-> <<reflection.name>>, url |-> reflection.url,
                          classes |-> reflection.cssClasses, parent |-> <<>>]
                 row == IF p.parent # NoParent
                        THEN [base EXCEPT
                                !.parent = getFullName(p.reflections, p.parent),
                                !.fullName = Append(getFullName(p.reflections, p.parent),
                                                    reflection.name)]
                        ELSE base
             IN  [rows |-> Append(state.rows, row), reflections |-> p.reflections]

\* for (let key in event.project.reflections): the keys in ascending order.
RECURSIVE indexAll(_, _)
indexAll(state, key) ==
    IF key \notin ReflectionIds THEN state
    ELSE indexAll(indexReflection(state, key), key + 1)

RenderInit ==
    /\ AccIdle
    /\ DeclIdle
    /\ FindIdle
    /\ project \in RenderedReflections
    /\ rows = <<>>
    /\ fileWritten = FALSE

onRendererBegin ==
    /\ ~fileWritten
    /\ LET done == indexAll([rows |-> <<>>, reflections |-> project], 1)
       IN  /\ rows' = done.rows
           /\ project' = done.reflections
    /\ fileWritten' = TRUE
    /\ UNCHANGED <<accVars, declVars, findVars>>

RenderNext == onRendererBegin

SpecRender == RenderInit /\ [][RenderNext]_vars

\* C6: onRendererBegin leaves every reflection of the project as it was
\* (parent, name, kind, flags, url); only the rows and the written file change.
C6_GraphReadOnly == [][project' = project]_vars

\* Rows were built, one for a reflection whose parent is the project (built
\* without a parent) and one for a reflection with a parent.
C6_Witness ==
    /\ fileWritten
    /\ \E i \in ReflectionIds : project[i].parent = ProjectParent
    /\ \E r \in DOMAIN rows : rows[r].parent = <<>>
    /\ \E r \in DOMAIN rows : rows[r].parent # <<>>

\* ------------------------------------------------------------------------
\* DeclarationReflection.findReflectionByName
\* ------------------------------------------------------------------------
\* The declarations of the graph; 0 is the project, their outermost parent.
FindNodes == {1, 2, 3}
NotFound == -1          \* undefined / null
Unresolved == 0         \* a ReferenceType whose reflection is not set

\* extendedTypes: unset, empty, or a list of references, each unresolved or
\* resolved to a declaration.
ExtendedTypesValues ==
    {Unset, Array(<<>>), Array(<<Unresolved>>)}
        \cup {Array(<<j>>) : j \in FindNodes}
        \cup {Array(<<Unresolved, j>>) : j \in FindNodes}

\* The declarations extendedTypes refers to.
Targets(ext) == {ext.items[k] : k \in DOMAIN ext.items} \ {Unresolved}

ProjectNode == [name |-> "project", parent |-> NoParent, extendedTypes |-> Unset]

\* The graphs a conversion can leave: the lexical parents form a tree below
\* the project, the children of one container have different names, and no
\* declaration names itself as its base.
FindGraphs ==
    {g \in [{0} \cup FindNodes ->
              [name : {"x", "y"}, parent : {0} \cup FindNodes,
               extendedTypes : ExtendedTypesValues] \cup {ProjectNode}] :
        /\ g[0] = ProjectNode
        /\ \A i \in FindNodes : g[i] # ProjectNode /\ g[i].parent < i
        /\ \A i \in FindNodes : i \notin Targets(g[i].extendedTypes)
        /\ \A i, j \in FindNodes :
              (i # j /\ g[i].parent = g[j].parent) => g[i].name # g[j].name}

\* ContainerReflection.getChildByName(names): the child named names[0], and
\* from there the rest of the path.
RECURSIVE getChildByName(_, _, _)
getChildByName(g, self, names) ==
    LET named == {i \in FindNodes : g[i].parent = self /\ g[i].name = Head(names)}
    IN  IF named = {} THEN NotFound
        ELSE LET child == CHOOSE i \in named : \A j \in named : i <= j
             IN  IF Len(names) = 1 THEN child
                 ELSE getChildByName(g, child, Tail(names))

\* What the method does once its own children hold no match: walk the type
\* parents (searchUp && this.extendedTypes, then parents[0].reflection), or go
\* on to the lexical parent.  parents[0] of an empty list is undefined, and
\* reading .reflection of it throws a TypeError.
afterMissNoWalk(d, searchUp) == "parent"

afterMiss(d, searchUp) ==
    IF searchUp /\ d.extendedTypes.present
    THEN IF d.extendedTypes.items = <<>> THEN "TypeError"
         ELSE IF Head(d.extendedTypes.items) # Unresolved THEN "walk"
         ELSE "parent"
    ELSE "parent"

Frame(self, searchUp, at) == [self |-> self, searchUp |-> searchUp, at |-> at]

\* return v: the activation is popped and its caller sees v.
Return(stk, v) ==
    [stack |-> SubSeq(stk, 1, Len(stk) - 1), ret |-> v,
     status |-> IF Len(stk) = 1 THEN "returned" ELSE "running"]

\* A nested call; the caller waits at `at`.  With no room left on the call
\* stack the engine throws a RangeError, which nothing catches.
PushCall(stk, target, searchUp, at) ==
    IF Len(stk) >= MaxDepth
    THEN [stack |-> <<>>, ret |-> NotFound, status |-> "RangeError"]
    ELSE [stack |-> Append([stk EXCEPT ![Len(stk)].at = at],
                           Frame(target, searchUp, "start")),
          ret |-> NotFound, status |-> "running"]

\* if (this.parent) { ref = this.parent.findReflectionByName(names); ... }
lexicalParentStep(g, stk) ==
    LET self == stk[Len(stk)].self
    IN  IF g[self].parent # NoParent
        THEN PushCall(stk, g[self].parent, FALSE, "parent")
        ELSE Return(stk, NotFound)

\* The method from its start to its first nested call, return or throw.
enterFind(g, names, stk) ==
    LET f == stk[Len(stk)]
        reflection == getChildByName(g, f.self, names)
        todo == afterMiss(g[f.self], f.searchUp)
    IN  IF reflection # NotFound THEN Return(stk, reflection)
        ELSE IF todo = "TypeError"
        THEN [stack |-> <<>>, ret |-> NotFound, status |-> "TypeError"]
        ELSE IF todo = "walk"
        THEN PushCall(stk, Head(g[f.self].extendedTypes.items), f.searchUp, "walk")
        ELSE lexicalParentStep(g, stk)

\* walkTypeParents has its answer: a match is returned, null falls through
\* to the lexical parent.
afterTypeParents(g, stk, r) ==
    IF r # NotFound THEN Return(stk, r) ELSE lexicalParentStep(g, stk)

\* The names argument: a single name, or a path of names.
QueryNames == {<<"x">>, <<"y", "x">>}

FindInit ==
    /\ AccIdle
    /\ DeclIdle
    /\ RenderIdle
    /\ graph \in FindGraphs
    /\ query \in [self : FindNodes, names : QueryNames, searchUp : BOOLEAN]
    /\ stack = <<Frame(query.self, query.searchUp, "start")>>
    /\ ret = NotFound
    /\ status = "running"

Top == stack[Len(stack)]

Step(next) ==
    /\ stack' = next.stack
    /\ ret' = next.ret
    /\ status' = next.status
    /\ UNCHANGED <<accVars, declVars, renderVars, graph, query>>

FindCall ==
    /\ status = "running"
    /\ Top.at = "start"
    /\ Step(enterFind(graph, query.names, stack))

FindAfterTypeParents ==
    /\ status = "running"
    /\ Top.at = "walk"
    /\ Step(afterTypeParents(graph, stack, ret))

FindAfterLexicalParent ==
    /\ status = "running"
    /\ Top.at = "parent"
    /\ Step(Return(stack, ret))

FindNext ==
    \/ FindCall
    \/ FindAfterTypeParents
    \/ FindAfterLexicalParent

SpecFind == FindInit /\ [][FindNext]_vars

\* ------------------------------------------------------------------------
\* findReflectionByName: properties
\* ------------------------------------------------------------------------
OwnChild(d) == getChildByName(graph, d, query.names)

\* The match in d's own children or, failing that, in the children of its
\* nearest lexical ancestor that has one.
RECURSIVE LexicalLookup(_)
LexicalLookup(d) ==
    IF OwnChild(d) # NotFound THEN OwnChild(d)
    ELSE IF graph[d].parent = NoParent THEN NotFound
    ELSE LexicalLookup(graph[d].parent)

\* The reflection the first extendedTypes entry of d resolves to, if any.
FirstTypeParent(d) ==
    IF graph[d].extendedTypes.present /\ graph[d].extendedTypes.items # <<>>
    THEN Head(graph[d].extendedTypes.items)
    ELSE Unresolved

\* The k-th declaration up the chain of first extended types.
RECURSIVE TypeAncestor(_, _)
TypeAncestor(d, k) ==
    IF k = 0 THEN d
    ELSE LET below == TypeAncestor(d, k - 1)
         IN  IF below = Unresolved THEN Unresolved ELSE FirstTypeParent(below)

HasMember(d, k) ==
    TypeAncestor(d, k) # Unresolved /\ OwnChild(TypeAncestor(d, k)) # NotFound

\* The inherited member: the match among the children of the nearest type
\* ancestor that has one.
InheritedLevels(d) == {k \in 1..Cardinality(FindNodes) : HasMember(d, k)}

InheritedMember(d) ==
    LET k == CHOOSE k \in InheritedLevels(d) : \A j \in InheritedLevels(d) : k <= j
    IN  OwnChild(TypeAncestor(d, k))

\* The lookup as C7 words it: own child, else (searchUp) the match found
\* through the first type parent, else the match found through the lexical
\* parent, else nothing.
RECURSIVE DescribedLookup(_, _)
DescribedLookup(d, searchUp) ==
    LET viaType == IF searchUp /\ FirstTypeParent(d) # Unresolved
                   THEN DescribedLookup(FirstTypeParent(d), searchUp)
                   ELSE NotFound
    IN  IF OwnChild(d) # NotFound THEN OwnChild(d)
        ELSE IF viaType # NotFound THEN viaType
        ELSE IF graph[d].parent # NoParent THEN DescribedLookup(graph[d].parent, FALSE)
        ELSE NotFound

\* C4: with searchUp set, on a declaration whose extendedTypes is empty or
\* starts with an unresolved reference, the lookup raises no error and
\* returns what the lexical lookup alone returns.
C4_UnresolvedNotDereferenced ==
    LET ext == graph[query.self].extendedTypes
    IN  (/\ query.searchUp
         /\ ext.present
         /\ (ext.items = <<>> \/ Head(ext.items) = Unresolved))
        => /\ status \notin {"TypeError", "RangeError"}
           /\ status = "returned" => ret = LexicalLookup(query.self)

\* C7: a returned lookup yields the own child when there is one; otherwise,
\* with searchUp, the inherited member when there is one, before any match of
\* the declaration's lexical parent; and in every case the result of the
\* own-child / type-parent / lexical-parent order (nothing when none matches).
C7_LookupPrecedence ==
    status = "returned" =>
        /\ OwnChild(query.self) # NotFound => ret = OwnChild(query.self)
        /\ (/\ OwnChild(query.self) = NotFound
            /\ query.searchUp
            /\ InheritedLevels(query.self) # {})
           => ret = InheritedMember(query.self)
        /\ ret = DescribedLookup(query.self, query.searchUp)

\* An inherited member was returned although the lexical parent had a
\* different match.
C7_Witness ==
    /\ status = "returned"
    /\ query.searchUp
    /\ OwnChild(query.self) = NotFound
    /\ InheritedLevels(query.self) # {}
    /\ ret = InheritedMember(query.self)
    /\ LexicalLookup(query.self) \notin {NotFound, ret}

\* C9: the lookup reaches a result: the recursion never runs out of stack,
\* and never re-enters an activation that is already waiting on the stack
\* (the graph does not change, so a repeated activation repeats forever).
C9_FindTerminates ==
    /\ status # "RangeError"
    /\ \A i, j \in DOMAIN stack : i < j => stack[i] # stack[j]

\* ------------------------------------------------------------------------
\* Accessor converter: properties
\* ------------------------------------------------------------------------
\* The Declarations of symbol s among the children of container c.
DeclarationsOf(c, s) ==
    {i \in DOMAIN reflections : reflections[i].parent = c /\ reflections[i].name = s}

HasBothSignatures(i) ==
    /\ reflections[i].getSignature = createSignature("__get", "GetSignature")
    /\ reflections[i].setSignature = createSignature("__set", "SetSignature")

GetterAndSetterConverted(c, s) ==
    /\ \E tag \in BOOLEAN : <<"GetAccessor", tag>> \in converted[<<c, s>>]
    /\ \E tag \in BOOLEAN : <<"SetAccessor", tag>> \in converted[<<c, s>>]

PlainGetterAndSetterConverted(c, s) ==
    /\ <<"GetAccessor", FALSE>> \in converted[<<c, s>>]
    /\ <<"SetAccessor", FALSE>> \in converted[<<c, s>>]

\* C1 as stated: in a class or interface scope, once a getter node and a
\* setter node of one symbol have been converted, the scope holds exactly one
\* Declaration of the symbol, and it has both getSignature and setSignature.
C1_AccessorMergingAsStated ==
    \A c \in Containers, s \in Symbols :
        (ContainerKind(c) \in ClassOrInterface /\ GetterAndSetterConverted(c, s))
        => /\ Cardinality(DeclarationsOf(c, s)) = 1
           /\ \A i \in DeclarationsOf(c, s) : HasBothSignatures(i)

\* C1 amended: in a class or interface scope, once a getter node and a setter
\* node of one symbol, neither carrying a @constant tag, have been converted,
\* the scope holds exactly one Declaration of the symbol, and it has both
\* getSignature and setSignature.
C1_AccessorMerging ==
    \A c \in Containers, s \in Symbols :
        (ContainerKind(c) \in ClassOrInterface /\ PlainGetterAndSetterConverted(c, s))
        => /\ Cardinality(DeclarationsOf(c, s)) = 1
           /\ \A i \in DeclarationsOf(c, s) : HasBothSignatures(i)

C1_Witness ==
    \E c \in Containers, s \in Symbols :
        /\ ContainerKind(c) = "Interface"
        /\ converted[<<c, s>>] = {<<"GetAccessor", FALSE>>, <<"SetAccessor", FALSE>>}
        /\ lastCall.op = "accessor"
        /\ \E i \in DeclarationsOf(c, s) : HasBothSignatures(i)

C3_MergeConflictDiscarded ==
    \A i \in DOMAIN reflections :
        LET d == reflections[i]
            signed == d.getSignature # NoSignature \/ d.setSignature # NoSignature
        IN  /\ (d.kind # "Accessor" => ~signed)
            /\ ~(d.type # NoType /\ signed)

====
